---- MODULE Spec2Model ----
(***************************************************************************)
(* Model of starter/tools/tools.py: seven tools wrapped by @tool and the   *)
(* backends they touch (HTTP, search provider, database engine, retrieval  *)
(* pipeline).  Python values are tagged records [type, v]; Python strings  *)
(* are sequences of text chunks, so that formatting and parsing are        *)
(* computed rather than assumed.                                           *)
(***************************************************************************)
EXTENDS Integers, Sequences, FiniteSets, TLC

VARIABLES pc, call, result, local, clock, startClock, db, dbAtCall, txn,
          conn, engineDisposed, touched

vars == <<pc, call, result, local, clock, startClock, db, dbAtCall, txn,
          conn, engineDisposed, touched>>

(* ---------------------------- bounds ---------------------------------- *)
MaxSec == 1
MaxMicro == 1
MaxRow == 1

(* ------------------------- Python values ------------------------------ *)
PyNone == [type |-> "NoneType", v |-> <<>>]
PyStr(chunks) == [type |-> "str", v |-> chunks]
PyInt(n) == [type |-> "int", v |-> n]
PyList(items) == [type |-> "list", v |-> items]
PyDict(f) == [type |-> "dict", v |-> f]

Pending == [kind |-> "pending", exc |-> "", val |-> PyNone]
Return(val) == [kind |-> "return", exc |-> "", val |-> val]
Raise(cls, msg) == [kind |-> "raise", exc |-> cls, val |-> PyStr(msg)]

StartsWith(s, p) == Len(s) >= Len(p) /\ SubSeq(s, 1, Len(p)) = p

(* ------------------------ tool signatures ----------------------------- *)
ToolNames == <<"GET_request", "POST_request", "web_search", "list_tables_tool",
               "get_table_schema_tool", "execute_sql_tool", "search_collection">>

Tools == {ToolNames[i] : i \in 1..Len(ToolNames)}

Required_DataOptional(t) ==
    CASE t = "GET_request" -> {"url"}
      [] t = "POST_request" -> {"url"}
      [] t = "web_search" -> {"query"}
      [] t = "list_tables_tool" -> {"DB_ENGINE"}
      [] t = "get_table_schema_tool" -> {"table_name", "DB_ENGINE"}
      [] t = "execute_sql_tool" -> {"query", "DB_ENGINE"}
      [] t = "search_collection" -> {"RAG_collection", "query"}

Required(t) ==
    CASE t = "GET_request" -> {"url"}
      [] t = "POST_request" -> {"url", "data"}
      [] t = "web_search" -> {"query"}
      [] t = "list_tables_tool" -> {"DB_ENGINE"}
      [] t = "get_table_schema_tool" -> {"table_name", "DB_ENGINE"}
      [] t = "execute_sql_tool" -> {"query", "DB_ENGINE"}
      [] t = "search_collection" -> {"RAG_collection", "query"}

Optional(t) == IF t = "web_search" THEN {"search_depth"} ELSE {}

Params(t) == Required(t) \cup Optional(t)

DefaultOf(k) == IF k = "search_depth" THEN "advanced" ELSE ""

(* Python's binding of a keyword mapping to the wrapped function's
   parameters: every required name present, no name outside the signature. *)
CallShapeOK(t, keys) == Required(t) \subseteq keys /\ keys \subseteq Params(t)

(* Tool.__call__ forwards the keyword mapping to the wrapped function. *)
tool(t, args) ==
    IF CallShapeOK(t, DOMAIN args)
    THEN [ok |-> TRUE,
          bound |-> [k \in Params(t) |->
                        IF k \in DOMAIN args THEN args[k] ELSE DefaultOf(k)]]
    ELSE [ok |-> FALSE, bound |-> args]

(* ------------------------------ JSON ---------------------------------- *)
NumTokens == {"1", "2"}
StrTokens == {"\"k\"", "\"ok\""}

NumValue(tok) == IF tok = "1" THEN 1 ELSE 2

(* the text between the quotes of a string literal *)
StrValue(tok) == IF tok = "\"k\"" THEN "k" ELSE "ok"

ParseFail == [ok |-> FALSE, val |-> PyNone, rest |-> <<>>]
ParseOk(val, rest) == [ok |-> TRUE, val |-> val, rest |-> rest]

RECURSIVE ParseValue(_)
RECURSIVE ParseElems(_, _)
RECURSIVE ParseMembers(_, _)

ParseElems(toks, acc) ==
    LET r == ParseValue(toks) IN
    IF ~r.ok \/ r.rest = <<>> THEN ParseFail
    ELSE IF Head(r.rest) = "," THEN ParseElems(Tail(r.rest), Append(acc, r.val))
    ELSE IF Head(r.rest) = "]" THEN ParseOk(PyList(Append(acc, r.val)), Tail(r.rest))
    ELSE ParseFail

ParseMembers(toks, acc) ==
    IF Len(toks) < 3 \/ Head(toks) \notin StrTokens \/ toks[2] # ":" THEN ParseFail
    ELSE LET r == ParseValue(SubSeq(toks, 3, Len(toks))) IN
         IF ~r.ok \/ r.rest = <<>> THEN ParseFail
         ELSE IF Head(r.rest) = ","
              THEN ParseMembers(Tail(r.rest), Append(acc, <<StrValue(Head(toks)), r.val>>))
         ELSE IF Head(r.rest) = "}"
              THEN ParseOk(PyDict(Append(acc, <<StrValue(Head(toks)), r.val>>)), Tail(r.rest))
         ELSE ParseFail

ParseValue(toks) ==
    IF toks = <<>> THEN ParseFail
    ELSE LET h == Head(toks)
             t == Tail(toks) IN
         IF h \in NumTokens THEN ParseOk(PyInt(NumValue(h)), t)
         ELSE IF h \in StrTokens THEN ParseOk(PyStr(<<StrValue(h)>>), t)
         ELSE IF h = "["
              THEN IF t # <<>> /\ Head(t) = "]" THEN ParseOk(PyList(<<>>), Tail(t))
                   ELSE ParseElems(t, <<>>)
         ELSE IF h = "{"
              THEN IF t # <<>> /\ Head(t) = "}" THEN ParseOk(PyDict(<<>>), Tail(t))
                   ELSE ParseMembers(t, <<>>)
         ELSE ParseFail

(* response.json(): the whole body must be one JSON value. *)
json_loads(body) ==
    LET r == ParseValue(body) IN
    IF r.ok /\ r.rest = <<>> THEN r ELSE ParseFail

Bodies == << <<>>,
             <<"1">>,
             <<"\"ok\"">>,
             <<"[", "]">>,
             <<"[", "1", ",", "2", "]">>,
             <<"{", "}">>,
             <<"{", "\"k\"", ":", "[", "1", "]", "}">>,
             <<"<html>">>,
             <<"[", "1">>,
             <<"{", "\"k\"", ":", "1", "}", "2">> >>

(* ------------------------------ HTTP ---------------------------------- *)
Urls == {"http://api/games"}
Statuses == {200, 300, 404, 500}
ConnFailures == {"ConnectionError", "Timeout"}
JSONDecodeErrors == {"requests.JSONDecodeError", "json.JSONDecodeError"}

(* requests.exceptions: the classes derived from RequestException. *)
IsRequestException(cls) ==
    cls \in {"RequestException", "ConnectionError", "Timeout", "HTTPError",
             "requests.JSONDecodeError"}

(* Response.raise_for_status() *)
raise_for_status(status, url) ==
    IF 400 <= status /\ status < 500
    THEN Raise("HTTPError", <<ToString(status), " Client Error for url: ", url>>)
    ELSE IF 500 <= status /\ status < 600
    THEN Raise("HTTPError", <<ToString(status), " Server Error for url: ", url>>)
    ELSE Pending

(* What the network can answer: no connection, an error status (its body is
   never read), or a status that passes raise_for_status with some body; the
   class of the decode error depends on the installed requests version. *)
HttpResponses ==
    {[conn |-> "ok", status |-> s, body |-> Bodies[b], decodeErr |-> d] :
        s \in {x \in Statuses : x < 400}, b \in 1..Len(Bodies), d \in JSONDecodeErrors}
    \cup {[conn |-> "ok", status |-> s, body |-> <<"<html>">>,
           decodeErr |-> "requests.JSONDecodeError"] : s \in {x \in Statuses : x >= 400}}
    \cup {[conn |-> c, status |-> 0, body |-> <<>>, decodeErr |-> "requests.JSONDecodeError"] :
            c \in ConnFailures}

TryRequest_RawText(url, o) ==
    IF o.conn # "ok" THEN Raise(o.conn, <<o.conn, " for url: ", url>>)
    ELSE LET st == raise_for_status(o.status, url) IN
         IF st.kind = "raise" THEN st ELSE Return(PyStr(o.body))

(* The body of the try block: request, raise_for_status, response.json(). *)
TryRequest(url, o) ==
    IF o.conn # "ok" THEN Raise(o.conn, <<o.conn, " for url: ", url>>)
    ELSE LET st == raise_for_status(o.status, url) IN
         IF st.kind = "raise" THEN st
         ELSE LET p == json_loads(o.body) IN
              IF p.ok THEN Return(p.val)
              ELSE Raise(o.decodeErr, <<"Expecting value">>)

ExceptRequestException_Reraise(r) == r

(* except requests.RequestException as e: return f"An error occurred: {e}" *)
ExceptRequestException(r) ==
    IF r.kind = "raise" /\ IsRequestException(r.exc)
    THEN Return(PyStr(<<"An error occurred", ": ">> \o r.val.v))
    ELSE r

HttpResult(url, o) == ExceptRequestException(TryRequest(url, o))

NoTouch == [http |-> 0, search |-> 0, txn |-> 0, rag |-> 0, inspect |-> 0]

(* --------------------------- web search ------------------------------- *)
TextQueries == {<<"best", " rpg">>, <<"Mario">>}
SearchDepths == {"basic", "advanced"}

(* What the provider can send back for a search request. *)
ProviderResponses ==
    << [answer |-> PyStr(<<"Zelda">>), results |-> PyList(<<"r1", "r2">>)],
       [results |-> PyList(<<"r1">>)],
       [answer |-> PyNone, results |-> PyList(<<"r1">>)],
       [answer |-> PyStr(<<>>), results |-> PyList(<<>>)],
       [answer |-> PyStr(<<"Zelda">>)],
       [answer |-> PyStr(<<"Zelda">>), results |-> PyList(<<"r1">>),
        query |-> PyStr(<<"rewritten">>), response_time |-> PyStr(<<"T", "9">>)] >>

SearchFailures == {"ConnectionError", "InvalidAPIKeyError", "UsageLimitExceededError"}

(* dict.get(key, default) *)
dict_get(d, k, default) == IF k \in DOMAIN d THEN d[k] ELSE default

(* datetime.isoformat(): the fraction is printed only when it is not zero. *)
isoformat(dt) ==
    IF dt.us = 0 THEN <<"T", ToString(dt.sec)>>
    ELSE <<"T", ToString(dt.sec), ".", ToString(dt.us)>>

FormatResults_ProviderTime(search_result, query, now) ==
    [answer |-> dict_get(search_result, "answer", PyStr(<<>>)),
     results |-> dict_get(search_result, "results", PyList(<<>>)),
     search_metadata |->
        [timestamp |-> dict_get(search_result, "response_time", PyStr(isoformat(now))),
         query |-> dict_get(search_result, "query", PyStr(query))]]

(* formatted_results = {...} *)
FormatResults(search_result, query, now) ==
    [answer |-> dict_get(search_result, "answer", PyStr(<<>>)),
     results |-> dict_get(search_result, "results", PyList(<<>>)),
     search_metadata |->
        [timestamp |-> PyStr(isoformat(now)), query |-> PyStr(query)]]

SearchRaises_Softened(cls) == Return(PyStr(<<"An error occurred", ": ", cls>>))

(* client.search(...) raising inside web_search: nothing catches it. *)
SearchRaises(cls) == Raise(cls, <<cls>>)

(* ----------------------------- database ------------------------------- *)
Rows == 1..MaxRow
TableNames == {<<"games">>, <<"nope">>}

SqlQueries ==
    {<<"SELECT id FROM games">>, <<"SELEC id FROM games">>, <<"SELECT id FROM nope">>}
    \cup {<<"INSERT INTO games (id) VALUES (", ToString(r), ")">> : r \in Rows}
    \cup {<<"DELETE FROM games WHERE id = ", ToString(r)>> : r \in Rows}

RowOf(tok) == CHOOSE r \in Rows : ToString(r) = tok

RECURSIVE SortedRows(_)
SortedRows(S) ==
    IF S = {} THEN <<>>
    ELSE LET m == CHOOSE x \in S : \A y \in S : x <= y IN
         <<m>> \o SortedRows(S \ {m})

NoCursor == [ok |-> FALSE, exc |-> "", data |-> {}, returnsRows |-> FALSE, rows |-> <<>>]

(* The backend's execution of text(query) on the transaction's view of the data. *)
Execute(q, data) ==
    IF q = <<"SELECT id FROM games">>
    THEN [NoCursor EXCEPT !.ok = TRUE, !.data = data, !.returnsRows = TRUE,
                          !.rows = SortedRows(data)]
    ELSE IF q[1] = "INSERT INTO games (id) VALUES ("
    THEN IF RowOf(q[2]) \in data
         THEN [NoCursor EXCEPT !.exc = "IntegrityError", !.data = data]
         ELSE [NoCursor EXCEPT !.ok = TRUE, !.data = data \cup {RowOf(q[2])}]
    ELSE IF q[1] = "DELETE FROM games WHERE id = "
    THEN [NoCursor EXCEPT !.ok = TRUE, !.data = data \ {RowOf(q[2])}]
    ELSE IF q = <<"SELECT id FROM nope">>
    THEN [NoCursor EXCEPT !.exc = "OperationalError", !.data = data]
    ELSE [NoCursor EXCEPT !.exc = "ProgrammingError", !.data = data]

(* CursorResult.fetchall(): a result that returns no rows is already closed. *)
fetchall(cur) ==
    IF cur.returnsRows THEN [ok |-> TRUE, exc |-> "", rows |-> cur.rows]
    ELSE [ok |-> FALSE, exc |-> "ResourceClosedError", rows |-> <<>>]

RECURSIVE JoinRows(_)
JoinRows(rows) ==
    IF rows = <<>> THEN <<>>
    ELSE IF Len(rows) = 1 THEN <<"(", ToString(rows[1]), ",)">>
    ELSE <<"(", ToString(rows[1]), ",)", ", ">> \o JoinRows(Tail(rows))

(* str(answer) for a list of one-column rows *)
str_rows(rows) == <<"[">> \o JoinRows(rows) \o <<"]">>

ScopeExit_LeaksOnError(exc) == IF exc = "" THEN "committed" ELSE "open"

(* Engine.begin().__exit__: commit without an exception, rollback with one. *)
ScopeExit(exc) == IF exc = "" THEN "committed" ELSE "rolledback"

SqlFailure_Softened(cls) == Return(PyStr(<<"An error occurred", ": ", cls>>))

(* An exception leaving the with block of execute_sql_tool. *)
SqlFailure(cls) == Raise(cls, <<cls>>)

(* --------------------------- retrieval -------------------------------- *)
FinalStates ==
    << [answer |-> PyStr(<<"42">>), sources |-> PyList(<<"doc1">>)],
       [answer |-> PyStr(<<>>)],
       [sources |-> PyList(<<"doc1">>)],
       [messages |-> PyList(<<>>), question |-> PyStr(<<"q">>)] >>

Subscript_Default(d, k) == Return(dict_get(d, k, PyStr(<<>>)))

(* d[k] on a mapping *)
Subscript(d, k) == IF k \in DOMAIN d THEN Return(d[k]) ELSE Raise("KeyError", <<k>>)

(* ------------------------------ state --------------------------------- *)
NoCall == [tool |-> "none", args |-> <<>>, ok |-> FALSE, bound |-> <<>>]
NoLocal == [exc |-> "", work |-> {}, cur |-> NoCursor, answer |-> <<>>,
            response |-> <<>>, search_result |-> <<>>, final_state |-> <<>>]

Init ==
    /\ pc = "idle"
    /\ call = NoCall
    /\ result = Pending
    /\ local = NoLocal
    /\ clock = [sec |-> 0, us |-> 0]
    /\ startClock = [sec |-> 0, us |-> 0]
    /\ db \in SUBSET Rows
    /\ dbAtCall = db
    /\ txn = "none"
    /\ conn = "none"
    /\ engineDisposed = FALSE
    /\ touched = NoTouch

(* The wall clock moves on by a microsecond or to the next whole second. *)
Tick ==
    /\ \/ clock.us < MaxMicro /\ clock' = [clock EXCEPT !.us = @ + 1]
       \/ clock.sec < MaxSec /\ clock' = [sec |-> clock.sec + 1, us |-> 0]
    /\ UNCHANGED <<pc, call, result, local, startClock, db, dbAtCall, txn, conn,
                   engineDisposed, touched>>

QueryInputs(t) ==
    IF t = "execute_sql_tool" THEN SqlQueries
    ELSE IF t \in {"web_search", "search_collection"} THEN TextQueries
    ELSE {<<"-">>}

TableInputs(t) == IF t = "get_table_schema_tool" THEN TableNames ELSE {<<"games">>}

DepthInputs(t) == IF t = "web_search" THEN SearchDepths ELSE {"advanced"}

ArgValue(k, url, q, tn, depth) ==
    CASE k = "url" -> <<url>>
      [] k = "query" -> q
      [] k = "table_name" -> tn
      [] k = "search_depth" -> <<depth>>
      [] k = "data" -> <<"{", "\"k\"", ":", "1", "}">>
      [] k = "DB_ENGINE" -> <<"engine">>
      [] k = "RAG_collection" -> <<"rag">>
      [] OTHER -> <<"?">>

(* The orchestrator invokes a tool descriptor with a keyword mapping. *)
Invoke ==
    /\ pc = "idle"
    /\ \E t \in Tools, url \in Urls :
       \E tn \in TableInputs(t), depth \in DepthInputs(t),
          keys \in SUBSET (Params(t) \cup {"bogus"}), q \in QueryInputs(t) :
          LET args == [k \in keys |-> ArgValue(k, url, q, tn, depth)]
              b == tool(t, args) IN
          /\ call' = [tool |-> t, args |-> args, ok |-> b.ok, bound |-> b.bound]
          /\ IF b.ok
             THEN pc' = t /\ result' = Pending
             ELSE pc' = "idle" /\ result' = Raise("TypeError", <<t, "() bad arguments">>)
    /\ startClock' = clock
    /\ dbAtCall' = db
    /\ txn' = "none"
    /\ conn' = "none"
    /\ local' = NoLocal
    /\ touched' = NoTouch
    /\ UNCHANGED <<clock, db, engineDisposed>>

GET_request ==
    /\ pc = "GET_request"
    /\ \E o \in HttpResponses :
          /\ result' = HttpResult(call.bound["url"][1], o)
          /\ local' = [local EXCEPT !.response = o]
    /\ touched' = [touched EXCEPT !.http = @ + 1]
    /\ pc' = "idle"
    /\ UNCHANGED <<call, clock, startClock, db, dbAtCall, txn, conn, engineDisposed>>

POST_request ==
    /\ pc = "POST_request"
    /\ \E o \in HttpResponses :
          /\ result' = HttpResult(call.bound["url"][1], o)
          /\ local' = [local EXCEPT !.response = o]
    /\ touched' = [touched EXCEPT !.http = @ + 1]
    /\ pc' = "idle"
    /\ UNCHANGED <<call, clock, startClock, db, dbAtCall, txn, conn, engineDisposed>>

(* TavilyClient(api_key=...) and client.search(...) *)
web_search ==
    /\ pc = "web_search"
    /\ \/ /\ result' = SearchRaises("MissingAPIKeyError")
          /\ local' = [local EXCEPT !.exc = "MissingAPIKeyError"]
          /\ pc' = "idle"
          /\ UNCHANGED touched
       \/ /\ \E f \in SearchFailures :
                /\ result' = SearchRaises(f)
                /\ local' = [local EXCEPT !.exc = f]
          /\ touched' = [touched EXCEPT !.search = @ + 1]
          /\ pc' = "idle"
       \/ /\ \E i \in 1..Len(ProviderResponses) :
                local' = [local EXCEPT !.search_result = ProviderResponses[i]]
          /\ touched' = [touched EXCEPT !.search = @ + 1]
          /\ pc' = "web_search_format"
          /\ UNCHANGED result
    /\ UNCHANGED <<call, clock, startClock, db, dbAtCall, txn, conn, engineDisposed>>

web_search_format ==
    /\ pc = "web_search_format"
    /\ result' = Return(PyDict(FormatResults(local.search_result, call.bound["query"], clock)))
    /\ pc' = "idle"
    /\ UNCHANGED <<call, local, clock, startClock, db, dbAtCall, txn, conn,
                   engineDisposed, touched>>

(* sqlalchemy.inspect(DB_ENGINE).get_table_names() *)
list_tables_tool ==
    /\ pc = "list_tables_tool"
    /\ \/ result' = Return(PyList(<<"games">>))
       \/ result' = Raise("OperationalError", <<"OperationalError">>)
    /\ touched' = [touched EXCEPT !.inspect = @ + 1]
    /\ pc' = "idle"
    /\ UNCHANGED <<call, local, clock, startClock, db, dbAtCall, txn, conn, engineDisposed>>

(* str(sqlalchemy.inspect(DB_ENGINE).get_columns(table_name)) *)
get_table_schema_tool ==
    /\ pc = "get_table_schema_tool"
    /\ \/ result' = IF call.bound["table_name"] = <<"games">>
                     THEN Return(PyStr(<<"[", "{'name': 'id', 'type': INTEGER(), ",
                                         "'nullable': False, 'default': None, ",
                                         "'primary_key': 1}", "]">>))
                     ELSE Raise("NoSuchTableError", call.bound["table_name"])
       \/ result' = Raise("OperationalError", <<"OperationalError">>)
    /\ touched' = [touched EXCEPT !.inspect = @ + 1]
    /\ pc' = "idle"
    /\ UNCHANGED <<call, local, clock, startClock, db, dbAtCall, txn, conn, engineDisposed>>

(* with DB_ENGINE.begin() as connection: *)
sql_begin ==
    /\ pc = "execute_sql_tool"
    /\ \/ /\ result' = SqlFailure("OperationalError")
          /\ local' = [local EXCEPT !.exc = "OperationalError"]
          /\ pc' = "idle"
          /\ UNCHANGED <<txn, conn>>
       \/ /\ txn' = "open"
          /\ conn' = "open"
          /\ local' = [local EXCEPT !.work = db]
          /\ pc' = "sql_execute"
          /\ UNCHANGED result
    /\ touched' = [touched EXCEPT !.txn = @ + 1]
    /\ UNCHANGED <<call, clock, startClock, db, dbAtCall, engineDisposed>>

(* connection.execute(text(query)) *)
sql_execute ==
    /\ pc = "sql_execute"
    /\ LET cur == Execute(call.bound["query"], local.work) IN
       /\ local' = [local EXCEPT !.cur = cur, !.work = cur.data, !.exc = cur.exc]
       /\ pc' = IF cur.ok THEN "sql_fetch" ELSE "sql_exit"
    /\ UNCHANGED <<call, result, clock, startClock, db, dbAtCall, txn, conn,
                   engineDisposed, touched>>

(* .fetchall() *)
sql_fetch ==
    /\ pc = "sql_fetch"
    /\ LET f == fetchall(local.cur) IN
       local' = [local EXCEPT !.answer = f.rows, !.exc = f.exc]
    /\ pc' = "sql_exit"
    /\ UNCHANGED <<call, result, clock, startClock, db, dbAtCall, txn, conn,
                   engineDisposed, touched>>

(* leaving the with block, then return str(answer) *)
sql_exit ==
    /\ pc = "sql_exit"
    /\ txn' = ScopeExit(local.exc)
    /\ conn' = IF txn' = "open" THEN conn ELSE "closed"
    /\ db' = IF txn' = "committed" THEN local.work ELSE db
    /\ result' = IF local.exc = "" THEN Return(PyStr(str_rows(local.answer)))
                 ELSE SqlFailure(local.exc)
    /\ pc' = "idle"
    /\ UNCHANGED <<call, local, clock, startClock, dbAtCall, engineDisposed, touched>>

(* result: Run = RAG_collection.invoke(query) *)
search_collection ==
    /\ pc = "search_collection"
    /\ \/ /\ result' = Raise("RuntimeError", <<"pipeline failed">>)
          /\ local' = [local EXCEPT !.exc = "RuntimeError"]
          /\ pc' = "idle"
       \/ /\ \E i \in 1..Len(FinalStates) :
                local' = [local EXCEPT !.final_state = FinalStates[i]]
          /\ pc' = "rag_extract"
          /\ UNCHANGED result
    /\ touched' = [touched EXCEPT !.rag = @ + 1]
    /\ UNCHANGED <<call, clock, startClock, db, dbAtCall, txn, conn, engineDisposed>>

(* return result.get_final_state()["answer"] *)
rag_extract ==
    /\ pc = "rag_extract"
    /\ result' = Subscript(local.final_state, "answer")
    /\ pc' = "idle"
    /\ UNCHANGED <<call, local, clock, startClock, db, dbAtCall, txn, conn,
                   engineDisposed, touched>>

Next ==
    \/ Tick
    \/ Invoke
    \/ GET_request
    \/ POST_request
    \/ web_search
    \/ web_search_format
    \/ list_tables_tool
    \/ get_table_schema_tool
    \/ sql_begin
    \/ sql_execute
    \/ sql_fetch
    \/ sql_exit
    \/ search_collection
    \/ rag_extract

Spec == Init /\ [][Next]_vars

(* ============================ properties ============================== *)
(* The wrapped function of tool t ran and the call has ended. *)
Done(t) == pc = "idle" /\ call.tool = t /\ call.ok

Returned(t) == Done(t) /\ result.kind = "return"

HttpTools == {"GET_request", "POST_request"}

(* Response.ok is false, or there is no response at all. *)
HttpFailed(o) == o.conn # "ok" \/ o.status >= 400

ErrorText(o, url) ==
    IF o.conn # "ok" THEN <<o.conn, " for url: ", url>>
    ELSE IF o.status < 500 THEN <<ToString(o.status), " Client Error for url: ", url>>
    ELSE <<ToString(o.status), " Server Error for url: ", url>>

(* C1: when the request of GET_request or POST_request fails (no connection,
   or a 4xx/5xx response) the call returns a string that begins with
   "An error occurred" and continues with the error's text; nothing is raised. *)
C1_HttpFailureIsSoft ==
    \A t \in HttpTools :
        (Done(t) /\ HttpFailed(local.response)) =>
            /\ result.kind = "return"
            /\ result.val.type = "str"
            /\ StartsWith(result.val.v, <<"An error occurred">>)
            /\ SubSeq(result.val.v, 3, Len(result.val.v))
                 = ErrorText(local.response, call.bound["url"][1])

C1_Witness ==
    /\ Done("GET_request")
    /\ local.response.conn = "ok"
    /\ local.response.status = 500
    /\ result.kind = "return"
    /\ result.val.v = <<"An error occurred", ": ", "500", " Server Error for url: ",
                        "http://api/games">>

(* C2: a call of execute_sql_tool never ends with its transaction or its
   connection open: a normal return has committed, an exception from execute
   or fetchall has rolled back, and the engine is never disposed. *)
C2_ScopeReleased ==
    /\ engineDisposed = FALSE
    /\ (pc = "idle" /\ call.tool = "execute_sql_tool") =>
            /\ txn # "open"
            /\ conn # "open"
    /\ Done("execute_sql_tool") =>
            /\ result.kind = "return" => txn = "committed"
            /\ (result.kind = "raise" /\ touched.txn = 1 /\ local.cur # NoCursor)
                  => txn = "rolledback"
            /\ local.cur.exc # "" => txn = "rolledback"
            /\ (local.cur.ok /\ local.exc = "ResourceClosedError") => txn = "rolledback"

C2_Witness ==
    /\ Done("execute_sql_tool")
    /\ local.cur.ok
    /\ local.exc = "ResourceClosedError"
    /\ txn = "rolledback"
    /\ conn = "closed"

(* A statement that the backend accepts, that changes data and returns no rows. *)
IsValidWrite(q, data) ==
    /\ q[1] \in {"INSERT INTO games (id) VALUES (", "DELETE FROM games WHERE id = "}
    /\ IF q[1] = "INSERT INTO games (id) VALUES ("
       THEN RowOf(q[2]) \notin data
       ELSE RowOf(q[2]) \in data

EffectOf(q, data) ==
    IF q[1] = "INSERT INTO games (id) VALUES ("
    THEN data \cup {RowOf(q[2])}
    ELSE data \ {RowOf(q[2])}

(* C3: after execute_sql_tool ran a valid write statement on a reachable
   database, the transaction is committed and the statement's effect is in
   the database. *)
C3_WriteTakesEffect ==
    (Done("execute_sql_tool") /\ txn # "none"
        /\ IsValidWrite(call.bound["query"], dbAtCall)) =>
            /\ txn = "committed"
            /\ db = EffectOf(call.bound["query"], dbAtCall)

InvalidQueries == {<<"SELEC id FROM games">>, <<"SELECT id FROM nope">>}

(* C4: a malformed or semantically invalid query makes execute_sql_tool raise
   the backend's error; a call whose query failed never returns a value. *)
C4_SqlFailurePropagates ==
    Done("execute_sql_tool") =>
        /\ (txn # "none" /\ call.bound["query"] = <<"SELEC id FROM games">>)
              => (result.kind = "raise" /\ result.exc = "ProgrammingError")
        /\ (txn # "none" /\ call.bound["query"] = <<"SELECT id FROM nope">>)
              => (result.kind = "raise" /\ result.exc = "OperationalError")
        /\ local.exc # "" => (result.kind = "raise" /\ result.exc = local.exc)
        /\ result.kind = "return" => call.bound["query"] \notin InvalidQueries

C4_Witness ==
    /\ Done("execute_sql_tool")
    /\ call.bound["query"] = <<"SELEC id FROM games">>
    /\ txn = "rolledback"
    /\ result.kind = "raise"
    /\ result.exc = "ProgrammingError"

(* The provider sent no synthesized answer: the field is missing or null. *)
NoAnswer(r) == "answer" \notin DOMAIN r \/ r.answer = PyNone

(* C5: the mapping returned by web_search always has a string under "answer",
   and that string is empty whenever the provider sent no synthesized answer. *)
C5_AnswerIsString ==
    Returned("web_search") =>
        /\ "answer" \in DOMAIN result.val.v
        /\ result.val.v.answer.type = "str"
        /\ NoAnswer(local.search_result) => result.val.v.answer = PyStr(<<>>)

ClockReadings == {[sec |-> s, us |-> u] : s \in 0..MaxSec, u \in 0..MaxMicro}

NotAfter(a, b) == a.sec < b.sec \/ (a.sec = b.sec /\ a.us <= b.us)

(* C6: the mapping returned by web_search has exactly the keys answer, results
   and search_metadata; search_metadata.query is the query passed in, and
   search_metadata.timestamp renders a reading of the local clock taken
   between the start of the call and its return, whatever the provider sent. *)
C6_MetadataFromCaller ==
    Returned("web_search") =>
        /\ result.val.type = "dict"
        /\ DOMAIN result.val.v = {"answer", "results", "search_metadata"}
        /\ DOMAIN result.val.v.search_metadata = {"timestamp", "query"}
        /\ result.val.v.search_metadata.query = PyStr(call.args["query"])
        /\ result.val.v.search_metadata.timestamp.type = "str"
        /\ \E t \in ClockReadings :
              /\ result.val.v.search_metadata.timestamp.v = isoformat(t)
              /\ NotAfter(startClock, t)
              /\ NotAfter(t, clock)

C6_Witness ==
    /\ Returned("web_search")
    /\ "response_time" \in DOMAIN local.search_result
    /\ "query" \in DOMAIN local.search_result
    /\ startClock = [sec |-> 0, us |-> 1]
    /\ result.val.v.search_metadata.timestamp.v = <<"T", "1">>
    /\ result.val.v.search_metadata.query = PyStr(<<"best", " rpg">>)

(* C7: search_collection invokes the pipeline once; it returns the value under
   "answer" of the terminal state and nothing else, and a terminal state
   without "answer" makes the call raise KeyError. *)
C7_AnswerOrKeyError ==
    Done("search_collection") =>
        /\ touched.rag = 1
        /\ "answer" \in DOMAIN local.final_state
              => result = Return(local.final_state.answer)
        /\ (local.exc = "" /\ "answer" \notin DOMAIN local.final_state)
              => (result.kind = "raise" /\ result.exc = "KeyError")
        /\ ("sources" \in DOMAIN local.final_state /\ result.kind = "return")
              => result.val = PyStr(<<"42">>)

C7_Witness ==
    /\ Done("search_collection")
    /\ DOMAIN local.final_state = {"sources"}
    /\ result.kind = "raise"
    /\ result.exc = "KeyError"
    /\ touched.rag = 1

(* The parameter schema of each tool, as the orchestrator sees it. *)
Schema ==
    [GET_request |-> [required |-> {"url"}, all |-> {"url"}],
     POST_request |-> [required |-> {"url", "data"}, all |-> {"url", "data"}],
     web_search |-> [required |-> {"query"}, all |-> {"query", "search_depth"}],
     list_tables_tool |-> [required |-> {"DB_ENGINE"}, all |-> {"DB_ENGINE"}],
     get_table_schema_tool |-> [required |-> {"table_name", "DB_ENGINE"},
                                all |-> {"table_name", "DB_ENGINE"}],
     execute_sql_tool |-> [required |-> {"query", "DB_ENGINE"},
                           all |-> {"query", "DB_ENGINE"}],
     search_collection |-> [required |-> {"RAG_collection", "query"},
                            all |-> {"RAG_collection", "query"}]]

BadShape(t, keys) == ~(Schema[t].required \subseteq keys) \/ ~(keys \subseteq Schema[t].all)

(* C8: a call of any of the seven tools whose arguments omit a required
   parameter or name a parameter outside the schema ends at once with a
   TypeError, with no request, transaction, inspection or pipeline run. *)
C8_BadShapeTouchesNothing ==
    (call.tool \in Tools /\ BadShape(call.tool, DOMAIN call.args)) =>
        /\ pc = "idle"
        /\ result.kind = "raise"
        /\ result.exc = "TypeError"
        /\ touched = NoTouch
        /\ txn = "none"
        /\ conn = "none"
        /\ db = dbAtCall

C8_Witness ==
    /\ call.tool = "POST_request"
    /\ DOMAIN call.args = {"url"}
    /\ result.exc = "TypeError"
    /\ touched = NoTouch

ValidJson == {2, 3, 4, 5, 6, 7}

Decoded ==
    << PyNone,
       PyInt(1),
       PyStr(<<"ok">>),
       PyList(<<>>),
       PyList(<<PyInt(1), PyInt(2)>>),
       PyDict(<<>>),
       PyDict(<< <<"k", PyList(<<PyInt(1)>>)>> >>),
       PyNone, PyNone, PyNone >>

(* C9 as stated: with a success status the result is the parsed body, a
   mapping or a sequence, never an error string. *)
C9_SuccessIsParsed ==
    \A t \in HttpTools :
        (Done(t) /\ ~HttpFailed(local.response)) =>
            /\ result.kind = "return"
            /\ result.val.type \in {"dict", "list"}

(* C9 amended: with a success status and a body that is valid JSON the result
   is the decoded body (mapping, sequence or scalar), not the raw text; with
   any other body nothing decoded is returned: the result is the
   "An error occurred" string when the decode error is a RequestException,
   and the decode error is raised otherwise. *)
C9_SuccessIsParsedIfJson ==
    \A t \in HttpTools : \A i \in 1..Len(Bodies) :
        (Done(t) /\ ~HttpFailed(local.response) /\ local.response.body = Bodies[i]) =>
            IF i \in ValidJson
            THEN /\ result = Return(Decoded[i])
                 /\ result.val # PyStr(Bodies[i])
            ELSE IF local.response.decodeErr = "requests.JSONDecodeError"
            THEN result = Return(PyStr(<<"An error occurred", ": ", "Expecting value">>))
            ELSE result.kind = "raise" /\ result.exc = "json.JSONDecodeError"

C9_Witness ==
    /\ Done("POST_request")
    /\ local.response.status = 200
    /\ local.response.body = Bodies[7]
    /\ result = Return(PyDict(<< <<"k", PyList(<<PyInt(1)>>)>> >>))

(* C10: when the provider call of web_search raises, the call raises the same
   error and returns nothing, whereas a failed connection in GET_request or
   POST_request ends in a returned value. *)
C10_SearchFailurePropagates ==
    /\ Done("web_search") =>
          /\ local.exc # "" => (result.kind = "raise" /\ result.exc = local.exc)
          /\ result.kind = "return" =>
                (local.exc = "" /\ result.val.type = "dict")
    /\ \A t \in HttpTools :
          (Done(t) /\ local.response.conn # "ok") => result.kind = "return"

C10_Witness ==
    /\ Done("web_search")
    /\ local.exc = "InvalidAPIKeyError"
    /\ touched.search = 1
    /\ result.kind = "raise"
    /\ result.exc = "InvalidAPIKeyError"

====
